---- MODULE Spec2Model ----
(***************************************************************************)
(* E-CIHMSB coverless steganography: the embedding / extraction engine.    *)
(*                                                                         *)
(* Bits are 0/1 integers, bit vectors are sequences (1-based here, 0-based *)
(* in the Python source).  A cover is a grayscale image made of 8x8 tiles  *)
(* taken from a small library; a secret is a text (sequence of code        *)
(* points) or an image (size, mode, pixels).                               *)
(***************************************************************************)
EXTENDS Integers, Sequences, FiniteSets, TLC

VARIABLES cover, pc, emb, zcode, ext, cap, unit

vars == <<cover, pc, emb, zcode, ext, cap, unit>>

(***************************************************************************)
(* config.py                                                               *)
(***************************************************************************)
BLOCK_SIZE == 8
LAYER1_FRAGMENT_SIZE == 2
LAYER2_FRAGMENT_SIZE == 4
NUM_LAYER1_BLOCKS == (BLOCK_SIZE \div LAYER1_FRAGMENT_SIZE) * (BLOCK_SIZE \div LAYER1_FRAGMENT_SIZE)
NUM_LAYER2_BLOCKS == (BLOCK_SIZE \div LAYER2_FRAGMENT_SIZE) * (BLOCK_SIZE \div LAYER2_FRAGMENT_SIZE)
NUM_LAYER3_BLOCKS == 1
TOTAL_AVERAGES_PER_UNIT == NUM_LAYER1_BLOCKS + NUM_LAYER2_BLOCKS + NUM_LAYER3_BLOCKS
Q_LENGTH == 7

TEST_IMAGE ==
  << <<44, 61, 72, 58, 70, 79, 66, 79>>,
     <<74, 65, 79, 62, 82, 62, 49, 38>>,
     <<127, 93, 75, 56, 82, 84, 80, 40>>,
     <<112, 117, 103, 60, 98, 88, 92, 79>>,
     <<50, 79, 114, 59, 108, 149, 117, 122>>,
     <<57, 50, 68, 87, 111, 158, 150, 109>>,
     <<89, 85, 64, 84, 134, 116, 90, 105>>,
     <<99, 107, 66, 32, 91, 123, 60, 75>> >>

(* config.MAPPING_TABLE and config.REVERSE_MAPPING_TABLE *)
config_MAPPING_TABLE == (<<0, 0>> :> 1) @@ (<<0, 1>> :> 0) @@ (<<1, 0>> :> 0) @@ (<<1, 1>> :> 1)

config_REVERSE_MAPPING_TABLE == (<<1, 0>> :> 0) @@ (<<0, 0>> :> 1) @@ (<<1, 1>> :> 1) @@ (<<0, 1>> :> 0)

(* the docstring's EC = (W x H) / (8 x 8) x 21 taken literally *)
capacity_by_area(image_width, image_height) ==
  ((image_width * image_height) \div (BLOCK_SIZE * BLOCK_SIZE)) * TOTAL_AVERAGES_PER_UNIT

(* config.calculate_capacity(image_width, image_height) *)
config_calculate_capacity(image_width, image_height) ==
  LET num_units == (image_width \div BLOCK_SIZE) * (image_height \div BLOCK_SIZE)
  IN  num_units * TOTAL_AVERAGES_PER_UNIT

(***************************************************************************)
(* Small helpers                                                           *)
(***************************************************************************)
Min(a, b) == IF a <= b THEN a ELSE b

Xor(a, b) == (a + b) % 2

(* l[from:to] of Python, 0-based and clipped to the list *)
Slice(l, from, to) == SubSeq(l, Min(from, Len(l)) + 1, Min(to, Len(l)))

RECURSIVE Flatten(_)
Flatten(ss) == IF ss = <<>> THEN <<>> ELSE Head(ss) \o Flatten(Tail(ss))

(* bin(n)[2:] : the binary digits of n >= 0, most significant first, "0" for 0 *)
RECURSIVE BinDigits(_)
BinDigits(n) == IF n < 2 THEN <<n>> ELSE Append(BinDigits(n \div 2), n % 2)

(* format(n, '0<width>b'): zero-filled on the left up to width, never cut *)
FormatBin(n, width) ==
  LET d == BinDigits(n)
  IN  IF Len(d) >= width THEN d ELSE [i \in 1..(width - Len(d)) |-> 0] \o d

(* int(''.join(map(str, bits)), 2); the empty string is a ValueError *)
RECURSIVE BitsToInt(_)
BitsToInt(bits) ==
  IF bits = <<>> THEN 0 ELSE 2 * BitsToInt(SubSeq(bits, 1, Len(bits) - 1)) + bits[Len(bits)]

(***************************************************************************)
(* binary_operations.py                                                    *)
(***************************************************************************)
get_msb(number) == IF number >= 128 THEN 1 ELSE 0

get_msbs(numbers) == [i \in 1..Len(numbers) |-> get_msb(numbers[i])]

(***************************************************************************)
(* mapping.py                                                              *)
(***************************************************************************)
MAPPING_TABLE == (<<0, 0>> :> 1) @@ (<<0, 1>> :> 0) @@ (<<1, 0>> :> 0) @@ (<<1, 1>> :> 1)

REVERSE_MAPPING_TABLE == (<<1, 0>> :> 0) @@ (<<0, 0>> :> 1) @@ (<<1, 1>> :> 1) @@ (<<0, 1>> :> 0)

map_to_z(secret_bit, msb) == MAPPING_TABLE[<<secret_bit, msb>>]

(* a reverse mapping that is XOR instead of XNOR *)
map_from_z_xor(z_bit, msb) == Xor(z_bit, msb)

map_from_z(z_bit, msb) == REVERSE_MAPPING_TABLE[<<z_bit, msb>>]

(***************************************************************************)
(* Correspondent keys.  NoneKey stands for Python's None; "" is the empty  *)
(* string; both are falsy.                                                 *)
(***************************************************************************)
NoneKey == "<None>"

Keys == {NoneKey, "", "Alice", "Bob", "Heidi"}

Falsy(key) == key = NoneKey \/ key = ""

(* hashlib.sha256(key.encode()).digest(), the 32 bytes *)
Sha256Digest(key) ==
  CASE key = "Alice" ->
         <<59, 197, 16, 98, 151, 60, 69, 141, 90, 111, 45, 141, 100, 160, 35, 36,
           99, 84, 173, 126, 6, 75, 30, 78, 0, 158, 200, 160, 105, 154, 48, 67>>
    [] key = "Bob" ->
         <<205, 159, 177, 225, 72, 204, 216, 68, 46, 90, 167, 73, 4, 204, 115, 191,
           111, 181, 77, 29, 84, 211, 51, 189, 89, 106, 169, 187, 75, 180, 233, 97>>
    [] key = "Heidi" ->
         <<59, 88, 10, 8, 186, 158, 224, 247, 67, 92, 237, 246, 219, 37, 231, 123,
           135, 217, 241, 225, 66, 242, 166, 70, 136, 114, 35, 179, 6, 150, 179, 11>>

(* np.random.default_rng(int.from_bytes(sha256(key)[:4], 'big')) shuffling  *)
(* list(range(7)): the 0-based order it leaves                             *)
PermOrder(key) ==
  CASE key = "Alice" -> <<2, 1, 3, 0, 5, 6, 4>>
    [] key = "Bob"   -> <<4, 1, 6, 2, 3, 0, 5>>
    [] key = "Heidi" -> <<6, 0, 3, 2, 4, 5, 1>>
    [] key = "2964"  -> <<4, 1, 6, 2, 3, 0, 5>>

(* hashlib.sha256(key_hash).digest(): the second digest of the hash chain *)
Sha256Rehash(key) ==
  CASE key = "Alice" ->
         <<70, 133, 64, 242, 117, 139, 46, 64, 117, 53, 116, 210, 142, 170, 162, 129,
           1, 195, 62, 168, 213, 48, 186, 118, 132, 94, 165, 79, 232, 152, 191, 226>>
    [] key = "Bob" ->
         <<154, 3, 252, 10, 198, 90, 128, 79, 250, 26, 116, 155, 217, 224, 134, 7,
           62, 12, 107, 12, 66, 84, 252, 159, 136, 77, 65, 24, 130, 143, 108, 244>>
    [] key = "Heidi" ->
         <<90, 212, 160, 35, 88, 88, 136, 2, 92, 117, 196, 134, 22, 152, 50, 251,
           185, 69, 8, 147, 128, 197, 164, 15, 46, 22, 115, 138, 153, 228, 102, 63>>

(* the key stream of the XOR cipher: the digest's bytes, 8 bits each, most  *)
(* significant first, taken byte by byte until n bits are there, the digest *)
(* being hashed again when its 32 bytes are used up.  Two digests of the    *)
(* chain are tabulated (n <= 512).                                          *)
KeyStream(key, n) ==
  LET nbytes == (n + 7) \div 8
      chain == Sha256Digest(key) \o Sha256Rehash(key)
  IN  Flatten([b \in 1..nbytes |-> FormatBin(chain[b], 8)])

(***************************************************************************)
(* embed.py / extract.py: the XOR cipher                                   *)
(***************************************************************************)
xor_encrypt(secret_bits, key) ==
  IF Falsy(key) THEN secret_bits
  ELSE LET key_bits == KeyStream(key, Len(secret_bits))
       IN  [i \in 1..Len(secret_bits) |-> Xor(secret_bits[i], key_bits[i])]

(* secret_encoding.xor_cipher with OR in the place of XOR *)
xor_cipher_or(bits, key) ==
  IF Falsy(key) THEN bits
  ELSE LET key_bits == KeyStream(key, Len(bits))
       IN  [i \in 1..Len(bits) |-> IF bits[i] = 1 \/ key_bits[i] = 1 THEN 1 ELSE 0]

(* secret_encoding.xor_cipher *)
xor_cipher(bits, key) ==
  IF Falsy(key) THEN bits
  ELSE LET key_bits == KeyStream(key, Len(bits))
       IN  [i \in 1..Len(bits) |-> Xor(bits[i], key_bits[i])]

(* a decryption that forgets the key stream *)
xor_decrypt_without_key(encrypted_bits, key) == encrypted_bits

xor_decrypt(encrypted_bits, key) ==
  IF Falsy(key) THEN encrypted_bits
  ELSE LET key_bits == KeyStream(key, Len(encrypted_bits))
       IN  [i \in 1..Len(encrypted_bits) |-> Xor(encrypted_bits[i], key_bits[i])]

(* embed.calculate_capacity(image_width, image_height) *)
calculate_capacity(image_width, image_height) ==
  LET num_units == (image_width \div BLOCK_SIZE) * (image_height \div BLOCK_SIZE)
      capacity  == num_units * TOTAL_AVERAGES_PER_UNIT
  IN  capacity

(***************************************************************************)
(* Cover images.  A cover is [h, w, pat, mode]: height, width, the pattern  *)
(* of library tiles that fills it, block after block in row-major order,   *)
(* and "L" for a 2-D array or "RGB" for an array of three channels.        *)
(***************************************************************************)
Tile(t) ==
  CASE t = 1 -> TEST_IMAGE
    [] t = 2 -> [r \in 1..8 |-> [c \in 1..8 |-> 0]]
    [] t = 3 -> [r \in 1..8 |-> [c \in 1..8 |-> 200]]
    [] t = 4 -> [r \in 1..8 |-> [c \in 1..8 |-> ((r - 1) * 40 + (c - 1) * 90) % 256]]

Patterns == << <<2, 3>>, <<4, 1, 3>> >>

(* number of block columns that hold pixels, a partial last one included *)
TileCols(img) == (img.w + BLOCK_SIZE - 1) \div BLOCK_SIZE

(* the value at [r, c], 0-based, of the library tile that covers it *)
TilePixel(img, r, c) ==
  LET p == Patterns[img.pat]
      b == (r \div BLOCK_SIZE) * TileCols(img) + (c \div BLOCK_SIZE)
  IN  Tile(p[(b % Len(p)) + 1])[(r % BLOCK_SIZE) + 1][(c % BLOCK_SIZE) + 1]

(* the caller's array at [r, c], 0-based: <<v>> for a grayscale cover and   *)
(* <<R, G, B>> for a colour cover, whose red and green channels are the    *)
(* tile and whose blue channel is the tile transposed                      *)
ChannelPixel(img, r, c) ==
  IF img.mode = "RGB"
  THEN <<TilePixel(img, r, c), TilePixel(img, r, c),
         TilePixel(img, (r \div BLOCK_SIZE) * BLOCK_SIZE + (c % BLOCK_SIZE),
                        (c \div BLOCK_SIZE) * BLOCK_SIZE + (r % BLOCK_SIZE))>>
  ELSE <<TilePixel(img, r, c)>>

(* the channel values of the library whose float64 sum                     *)
(* 0.299 * R + 0.587 * G + 0.114 * B falls just below the whole number it   *)
(* equals in exact arithmetic                                              *)
GrayShortfall == {<<4, 4, 4>>, <<8, 8, 8>>, <<44, 44, 44>>, <<108, 108, 108>>}

(* (0.299 * R + 0.587 * G + 0.114 * B).astype(np.uint8) for one pixel: the  *)
(* sum in thousandths, truncated                                           *)
Gray(rgb) ==
  LET thousandths == 299 * rgb[1] + 587 * rgb[2] + 114 * rgb[3]
  IN  IF rgb \in GrayShortfall THEN (thousandths \div 1000) - 1
      ELSE thousandths \div 1000

(* cover_image[r, c], 0-based, after the preprocessing: the pixel of a     *)
(* grayscale cover, the converted pixel of a colour cover                  *)
Pixel(img, r, c) ==
  IF img.mode = "RGB" THEN Gray(ChannelPixel(img, r, c)) ELSE TilePixel(img, r, c)

(* a call that leaves the caller's colour image reduced to one channel *)
CallerImageConverted(cover_image) ==
  IF cover_image.mode = "RGB" THEN [cover_image EXCEPT !.mode = "L"] ELSE cover_image

(* the caller's image after a call: np.array(cover_image) copies it, the   *)
(* conversion binds a new array to the local name, and no statement of     *)
(* the call assigns to an element                                          *)
CallerImage(cover_image) == cover_image

(* cover_image[start_row:end_row, start_col:end_col] for block (i, j) *)
BlockAt(img, i, j) ==
  LET start_row == i * BLOCK_SIZE
      start_col == j * BLOCK_SIZE
  IN  [r \in 1..BLOCK_SIZE |-> [c \in 1..BLOCK_SIZE |-> Pixel(img, start_row + r - 1, start_col + c - 1)]]

(***************************************************************************)
(* image_processing.py                                                     *)
(* The float means are kept exact as scaled integers: layer1 * 4,          *)
(* layer2 * 16, layer3 * 64; astype(int) truncates the quotient.           *)
(***************************************************************************)
(* averages whose layers 2 and 3 are means of the truncated layer below *)
averages_of_truncated(block_8x8) ==
  LET layer1(i, j) == (block_8x8[2*i + 1][2*j + 1] + block_8x8[2*i + 1][2*j + 2]
                       + block_8x8[2*i + 2][2*j + 1] + block_8x8[2*i + 2][2*j + 2]) \div 4
      layer2(i, j) == (layer1(2*i, 2*j) + layer1(2*i, 2*j + 1)
                       + layer1(2*i + 1, 2*j) + layer1(2*i + 1, 2*j + 1)) \div 4
      layer3       == (layer2(0, 0) + layer2(0, 1) + layer2(1, 0) + layer2(1, 1)) \div 4
  IN  [n \in 1..16 |-> layer1((n - 1) \div 4, (n - 1) % 4)]
        \o [n \in 1..4 |-> layer2((n - 1) \div 2, (n - 1) % 2)] \o <<layer3>>

calculate_hierarchical_averages(block_8x8) ==
  LET layer1x4(i, j)  == block_8x8[2*i + 1][2*j + 1] + block_8x8[2*i + 1][2*j + 2]
                         + block_8x8[2*i + 2][2*j + 1] + block_8x8[2*i + 2][2*j + 2]
      layer2x16(i, j) == layer1x4(2*i, 2*j) + layer1x4(2*i, 2*j + 1)
                         + layer1x4(2*i + 1, 2*j) + layer1x4(2*i + 1, 2*j + 1)
      layer3x64       == layer2x16(0, 0) + layer2x16(0, 1) + layer2x16(1, 0) + layer2x16(1, 1)
      layer1_averages == [n \in 1..16 |-> layer1x4((n - 1) \div 4, (n - 1) % 4) \div 4]
      layer2_averages == [n \in 1..4 |-> layer2x16((n - 1) \div 2, (n - 1) % 2) \div 16]
      layer3_average  == layer3x64 \div 64
  IN  layer1_averages \o layer2_averages \o <<layer3_average>>

(***************************************************************************)
(* permutation.py                                                          *)
(***************************************************************************)
(* np.argsort(values) + 1: the 1-based index of the k-th smallest value;   *)
(* equal values keep their order (insertion sort on 7 elements)            *)
ArgSort1(values) ==
  LET n == Len(values)
      before(i) == Cardinality({j \in 1..n : values[j] < values[i] \/ (values[j] = values[i] /\ j < i)})
  IN  [k \in 1..n |-> CHOOSE i \in 1..n : before(i) = k - 1]

(* every result np.argsort(values) + 1 can have: the sort is not asked to   *)
(* be stable, so the order among equal values is the build's                *)
ArgSorts(values) ==
  LET n == Len(values)
  IN  {[k \in 1..n |-> f[k]] : f \in {g \in Permutations(1..n) :
                                        \A k \in 1..(n - 1) : values[g[k]] <= values[g[k + 1]]}}

(* a key step that picks entries of Q with repeats *)
KeyedQWithRepeats(Q, q_length, contact_key) ==
  IF ~Falsy(contact_key)
  THEN LET perm_order == PermOrder(contact_key)
       IN  [i \in 1..q_length |-> Q[(perm_order[i] \div 2) + 1]]
  ELSE Q

(* a Q that holds the rank of each position: the inverse of argsort + 1 *)
RankQ(Q, q_length, contact_key) == [i \in 1..q_length |-> CHOOSE k \in 1..q_length : Q[k] = i]

(* the key step of generate_Q_from_block on Q = argsort + 1 *)
(* a key step whose order also turns with the block's Q *)
KeyedQTurned(Q, q_length, contact_key) ==
  IF ~Falsy(contact_key)
  THEN LET perm_order == PermOrder(contact_key)
       IN  [i \in 1..q_length |-> Q[perm_order[((i + Q[1]) % q_length) + 1] + 1]]
  ELSE Q

KeyedQ(Q, q_length, contact_key) ==
  IF ~Falsy(contact_key)
  THEN LET perm_order == PermOrder(contact_key)
       IN  [i \in 1..q_length |-> Q[perm_order[i] + 1]]
  ELSE Q

generate_Q_from_block(block, q_length, contact_key) ==
  LET first_row == SubSeq(block[1], 1, q_length)
      Q == ArgSort1(first_row)
  IN  KeyedQ(Q, q_length, contact_key)

apply_permutation(values, Q) == [i \in 1..Len(Q) |-> values[Q[i]]]

(* three rounds that put value i at place Q[i], the inverse arrangement *)
apply_Q_inverted(averages_21, Q) ==
  [n \in 1..Len(averages_21) |->
     averages_21[7 * ((n - 1) \div 7) + (CHOOSE i \in 1..7 : Q[i] = ((n - 1) % 7) + 1)]]

apply_Q_three_rounds(averages_21, Q) ==
  LET round1 == apply_permutation(SubSeq(averages_21, 1, 7), Q)
      round2 == apply_permutation(SubSeq(averages_21, 8, 14), Q)
      round3 == apply_permutation(SubSeq(averages_21, 15, 21), Q)
  IN  round1 \o round2 \o round3

(* the per-block steps shared by embed_secret, extract_secret and          *)
(* detect_and_extract: Q, the 21 averages, their reordering, the 21 MSBs   *)
BlockMsbs(img, i, j, contact_key) ==
  LET block == BlockAt(img, i, j)
      Q == generate_Q_from_block(block, Q_LENGTH, contact_key)
      averages_21 == calculate_hierarchical_averages(block)
      reordered_averages == apply_Q_three_rounds(averages_21, Q)
  IN  get_msbs(reordered_averages)

(***************************************************************************)
(* Secrets.  One record shape for all of them:                             *)
(*   text   cps = the code points of the string                            *)
(*   image  w, h, mode and px = the pixels in row-major order, each a      *)
(*          tuple of channel values (one value for mode L); pixels an      *)
(*          image holds beyond Len(px) have Image.new's fill value 0       *)
(*   none   Python's None                                                  *)
(***************************************************************************)
TextSecret(cps) == [kind |-> "text", cps |-> cps, w |-> 0, h |-> 0, mode |-> "", px |-> <<>>]

ImageSecret(w, h, mode, px) == [kind |-> "image", cps |-> <<>>, w |-> w, h |-> h, mode |-> mode, px |-> px]

NoneSecret == [kind |-> "none", cps |-> <<>>, w |-> 0, h |-> 0, mode |-> "", px |-> <<>>]

(***************************************************************************)
(* secret_encoding.py: text                                                *)
(***************************************************************************)
(* str.encode('utf-8') of one code point (no surrogates) *)
Utf8Encode(cp) ==
  IF cp < 128 THEN <<cp>>
  ELSE IF cp < 2048 THEN <<192 + (cp \div 64), 128 + (cp % 64)>>
  ELSE IF cp < 65536 THEN <<224 + (cp \div 4096), 128 + ((cp \div 64) % 64), 128 + (cp % 64)>>
  ELSE <<240 + (cp \div 262144), 128 + ((cp \div 4096) % 64), 128 + ((cp \div 64) % 64), 128 + (cp % 64)>>

text_to_binary(text) ==
  LET bytes == Flatten([i \in 1..Len(text) |-> Utf8Encode(text[i])])
  IN  Flatten([i \in 1..Len(bytes) |-> FormatBin(bytes[i], 8)])

IsCont(b) == b >= 128 /\ b < 192

Drop(s, k) == SubSeq(s, k + 1, Len(s))

(* bytes.decode('utf-8', errors='ignore'): a malformed sequence is dropped  *)
(* up to the byte that breaks it, a sequence cut by the end of the data is  *)
(* dropped whole                                                           *)
RECURSIVE Utf8DecodeIgnore(_)
Utf8DecodeIgnore(s) ==
  IF s = <<>> THEN <<>>
  ELSE
    LET ch == s[1]
        n  == Len(s)
        bad2 == \/ ~IsCont(s[2])
                \/ (ch = 224 /\ s[2] < 160) \/ (ch = 237 /\ s[2] >= 160)
                \/ (ch = 240 /\ s[2] < 144) \/ (ch = 244 /\ s[2] >= 144)
    IN  IF ch < 128 THEN <<ch>> \o Utf8DecodeIgnore(Drop(s, 1))
        ELSE IF ch < 194 \/ ch >= 245 THEN Utf8DecodeIgnore(Drop(s, 1))
        ELSE IF n < 2 THEN <<>>
        ELSE IF bad2 THEN Utf8DecodeIgnore(Drop(s, 1))
        ELSE IF ch < 224 THEN <<((ch % 32) * 64) + (s[2] % 64)>> \o Utf8DecodeIgnore(Drop(s, 2))
        ELSE IF n < 3 THEN <<>>
        ELSE IF ~IsCont(s[3]) THEN Utf8DecodeIgnore(Drop(s, 2))
        ELSE IF ch < 240
             THEN <<((ch % 16) * 4096) + ((s[2] % 64) * 64) + (s[3] % 64)>> \o Utf8DecodeIgnore(Drop(s, 3))
        ELSE IF n < 4 THEN <<>>
        ELSE IF ~IsCont(s[4]) THEN Utf8DecodeIgnore(Drop(s, 3))
        ELSE <<((ch % 8) * 262144) + ((s[2] % 64) * 4096) + ((s[3] % 64) * 64) + (s[4] % 64)>>
             \o Utf8DecodeIgnore(Drop(s, 4))

(* only complete groups of 8 bits become bytes *)
binary_to_text(binary) ==
  LET byte_list == [k \in 1..(Len(binary) \div 8) |-> BitsToInt(SubSeq(binary, 8 * k - 7, 8 * k))]
  IN  Utf8DecodeIgnore(byte_list)

(***************************************************************************)
(* secret_encoding.py: images (modes L, RGB and RGBA, which image_to_binary*)
(* packs without converting)                                               *)
(***************************************************************************)
image_to_binary(image) ==
  LET is_color  == image.mode \notin {"L", "1", "LA"}
      has_alpha == is_color /\ image.mode \in {"RGBA", "PA"}
      channels  == IF has_alpha THEN 4 ELSE 3
      header == FormatBin(image.w, 16) \o FormatBin(image.h, 16)
                \o <<IF is_color THEN 1 ELSE 0>> \o <<IF has_alpha THEN 1 ELSE 0>>
      pixelBits(px) == IF is_color
                       THEN Flatten([c \in 1..channels |-> FormatBin(px[c], 8)])
                       ELSE FormatBin(px[1], 8)
  IN  [binary |-> header \o Flatten([p \in 1..Len(image.px) |-> pixelBits(image.px[p])]),
       size   |-> <<image.w, image.h>>,
       mode   |-> image.mode]

(* min(w * h, avail) without forming the product of two 16-bit numbers *)
PixelsToRead(w, h, avail) ==
  IF w = 0 \/ h = 0 THEN 0
  ELSE IF w > avail \/ h > avail THEN avail
  ELSE Min(w * h, avail)

(* the list `pixels` binary_to_image has built when its loop ends, for a   *)
(* binary of 34 bits or more: tuples of 4 channels while has_alpha is set   *)
(* and 32 bits are left, tuples of 3 channels while 24 bits are left, one   *)
(* value per pixel of a grayscale image                                    *)
ReadPixels(binary) ==
  LET w == BitsToInt(Slice(binary, 0, 16))
      h == BitsToInt(Slice(binary, 16, 32))
      is_color  == binary[33]
      has_alpha == binary[34]
      idx  == 34
      rest == Len(binary) - idx
      chan(at, c) == BitsToInt(Slice(binary, at + c * 8, at + (c + 1) * 8))
      n32 == PixelsToRead(w, h, rest \div 32)
      n24 == PixelsToRead(w, h, rest \div 24)
      n8  == PixelsToRead(w, h, rest \div 8)
      rgba == [p \in 1..n32 |-> [c \in 1..4 |-> chan(idx + 32 * (p - 1), c - 1)]]
      (* has_alpha, fewer than 32 bits left but 24 or more, pixels still to read *)
      tail3 == IF PixelsToRead(w, h, n32 + 1) > n32 /\ rest - 32 * n32 >= 24
               THEN << [c \in 1..3 |-> chan(idx + 32 * n32, c - 1)] >>
               ELSE <<>>
      rgb  == [p \in 1..n24 |-> [c \in 1..3 |-> chan(idx + 24 * (p - 1), c - 1)]]
      gray == [p \in 1..n8 |-> <<chan(idx + 8 * (p - 1), 0)>>]
  IN  IF is_color = 1
      THEN (IF has_alpha = 1 THEN rgba \o tail3 ELSE rgb)
      ELSE gray

(* Image.putdata on a new image of the mode: a tuple of 3 channels put     *)
(* into an RGBA image gets the alpha 255                                   *)
PutData(mode, pixels) ==
  [p \in 1..Len(pixels) |->
     IF mode = "RGBA" /\ Len(pixels[p]) = 3 THEN Append(pixels[p], 255) ELSE pixels[p]]

(* binary_to_image(binary): [img, size, is_color]; img = NoneSecret with    *)
(* size <<>> and is_color -1 stands for (None, None, None), returned when   *)
(* parsing the 34 header bits raises                                       *)
binary_to_image(binary) ==
  IF Len(binary) < 34
  THEN [img |-> NoneSecret, size |-> <<>>, is_color |-> -1]
  ELSE
    LET w == BitsToInt(Slice(binary, 0, 16))
        h == BitsToInt(Slice(binary, 16, 32))
        is_color  == binary[33]
        has_alpha == binary[34]
        mode == IF is_color = 1 THEN (IF has_alpha = 1 THEN "RGBA" ELSE "RGB") ELSE "L"
    IN  [img |-> ImageSecret(w, h, mode, PutData(mode, ReadPixels(binary))),
         size |-> <<w, h>>, is_color |-> is_color]

(***************************************************************************)
(* embed.py: embed_secret                                                  *)
(***************************************************************************)
IMAGE_HEADER_SIZE == 34

(* a dimension check that forgets the width *)
InvalidHeight(img) == img.h % 8 # 0

(* the dimension check shared by embed_secret and extract_secret *)
InvalidDimensions(img) == img.h % 8 # 0 \/ img.w % 8 # 0

(* block loops that always fill the block they started, with filler 0 *)
RECURSIVE EmbedWalkPadded(_, _, _, _, _)
EmbedWalkPadded(img, contact_key, encrypted_bits, b, z_bits) ==
  LET num_rows == img.h \div BLOCK_SIZE
      num_cols == img.w \div BLOCK_SIZE
      secret_bit_index == Len(z_bits)
      bitAt(n) == IF n <= Len(encrypted_bits) THEN encrypted_bits[n] ELSE 0
  IN  IF b >= num_rows * num_cols \/ secret_bit_index >= Len(encrypted_bits)
      THEN [z_bits |-> z_bits, visited |-> b]
      ELSE LET msbs == BlockMsbs(img, b \div num_cols, b % num_cols, contact_key)
               z_block == [k \in 1..TOTAL_AVERAGES_PER_UNIT |->
                             map_to_z(bitAt(secret_bit_index + k), msbs[k])]
           IN  EmbedWalkPadded(img, contact_key, encrypted_bits, b + 1, z_bits \o z_block)

(* block loops that test the payload only after a block's steps, and so    *)
(* visit one block more when blocks are left                               *)
RECURSIVE EmbedWalkLookahead(_, _, _, _, _)
EmbedWalkLookahead(img, contact_key, encrypted_bits, b, z_bits) ==
  LET num_rows == img.h \div BLOCK_SIZE
      num_cols == img.w \div BLOCK_SIZE
      secret_bit_index == Len(z_bits)
  IN  IF b >= num_rows * num_cols
      THEN [z_bits |-> z_bits, visited |-> b]
      ELSE IF secret_bit_index >= Len(encrypted_bits)
      THEN [z_bits |-> z_bits, visited |-> b + 1]
      ELSE LET msbs == BlockMsbs(img, b \div num_cols, b % num_cols, contact_key)
               take == Min(TOTAL_AVERAGES_PER_UNIT, Len(encrypted_bits) - secret_bit_index)
               z_block == [k \in 1..take |-> map_to_z(encrypted_bits[secret_bit_index + k], msbs[k])]
           IN  EmbedWalkLookahead(img, contact_key, encrypted_bits, b + 1, z_bits \o z_block)

(* the block loops of embed_secret from block number b on (row-major,      *)
(* block (b div num_cols, b mod num_cols)); visited counts the blocks      *)
(* whose Q, averages and MSBs were computed                                *)
RECURSIVE EmbedWalk(_, _, _, _, _)
EmbedWalk(img, contact_key, encrypted_bits, b, z_bits) ==
  LET num_rows == img.h \div BLOCK_SIZE
      num_cols == img.w \div BLOCK_SIZE
      secret_bit_index == Len(z_bits)
  IN  IF b >= num_rows * num_cols \/ secret_bit_index >= Len(encrypted_bits)
      THEN [z_bits |-> z_bits, visited |-> b]
      ELSE LET msbs == BlockMsbs(img, b \div num_cols, b % num_cols, contact_key)
               take == Min(TOTAL_AVERAGES_PER_UNIT, Len(encrypted_bits) - secret_bit_index)
               z_block == [k \in 1..take |-> map_to_z(encrypted_bits[secret_bit_index + k], msbs[k])]
           IN  EmbedWalk(img, contact_key, encrypted_bits, b + 1, z_bits \o z_block)

(* a capacity check that also refuses a payload that fills the cover *)
CapacityExceededOrFull(secret_bits, capacity) == Len(secret_bits) >= capacity

(* the capacity check of embed_secret *)
CapacityExceeded(secret_bits, capacity) == Len(secret_bits) > capacity

EmbedFailure(why) ==
  [status |-> "error", error |-> why, z_bits |-> <<>>, capacity |-> 0, bits |-> 0,
   visited |-> 0, encrypted_bits |-> <<>>]

(* embed_secret(cover_image, secret, secret_type, contact_key) with         *)
(* secret_type the kind of the secret.  status "ok": (z_bits, capacity,     *)
(* info['bits']) are the values returned; status "error": the ValueError    *)
(* raised.  encrypted_bits and visited record the local of that name and    *)
(* the blocks visited.                                                     *)
embed_secret(cover_image, secret, contact_key) ==
  IF InvalidDimensions(cover_image) THEN EmbedFailure("InvalidDimensions")
  ELSE
    LET num_rows  == cover_image.h \div BLOCK_SIZE
        num_cols  == cover_image.w \div BLOCK_SIZE
        num_units == num_rows * num_cols
        capacity  == num_units * TOTAL_AVERAGES_PER_UNIT
        type_marker  == IF secret.kind = "text" THEN <<0>> ELSE <<1>>
        content_bits == IF secret.kind = "text" THEN text_to_binary(secret.cps)
                        ELSE image_to_binary(secret).binary
        secret_bits  == type_marker \o content_bits
        encrypted_bits ==
          IF secret.kind = "image" /\ Len(content_bits) > IMAGE_HEADER_SIZE
          THEN LET image_header == Slice(content_bits, 0, IMAGE_HEADER_SIZE)
                   pixel_data   == Drop(content_bits, IMAGE_HEADER_SIZE)
               IN  type_marker \o image_header \o xor_encrypt(pixel_data, contact_key)
          ELSE type_marker \o xor_encrypt(content_bits, contact_key)
        walk == EmbedWalk(cover_image, contact_key, encrypted_bits, 0, <<>>)
    IN  IF CapacityExceeded(secret_bits, capacity) THEN EmbedFailure("CapacityExceeded")
        ELSE [status |-> "ok", error |-> "", z_bits |-> walk.z_bits, capacity |-> capacity,
              bits |-> Len(content_bits) + 1, visited |-> walk.visited,
              encrypted_bits |-> encrypted_bits]

(***************************************************************************)
(* extract.py: extract_secret, detect_and_extract                          *)
(***************************************************************************)
noise_size == 64

(* block loops that test the index with > and so read one bit past the end *)
(* of the Z-code (as 0)                                                     *)
RECURSIVE ExtractWalkOffByOne(_, _, _, _, _)
ExtractWalkOffByOne(img, contact_key, z_bits, b, encrypted_bits) ==
  LET num_rows == img.h \div BLOCK_SIZE
      num_cols == img.w \div BLOCK_SIZE
      z_bit_index == Len(encrypted_bits)
      zAt(n) == IF n <= Len(z_bits) THEN z_bits[n] ELSE 0
  IN  IF b >= num_rows * num_cols \/ z_bit_index > Len(z_bits)
      THEN [encrypted_bits |-> encrypted_bits, visited |-> b]
      ELSE LET msbs == BlockMsbs(img, b \div num_cols, b % num_cols, contact_key)
               take == Min(TOTAL_AVERAGES_PER_UNIT, Len(z_bits) + 1 - z_bit_index)
               m_block == [k \in 1..take |-> map_from_z(zAt(z_bit_index + k), msbs[k])]
           IN  ExtractWalkOffByOne(img, contact_key, z_bits, b + 1, encrypted_bits \o m_block)

RECURSIVE ExtractWalk(_, _, _, _, _)
ExtractWalk(img, contact_key, z_bits, b, encrypted_bits) ==
  LET num_rows == img.h \div BLOCK_SIZE
      num_cols == img.w \div BLOCK_SIZE
      z_bit_index == Len(encrypted_bits)
  IN  IF b >= num_rows * num_cols \/ z_bit_index >= Len(z_bits)
      THEN [encrypted_bits |-> encrypted_bits, visited |-> b]
      ELSE LET msbs == BlockMsbs(img, b \div num_cols, b % num_cols, contact_key)
               take == Min(TOTAL_AVERAGES_PER_UNIT, Len(z_bits) - z_bit_index)
               m_block == [k \in 1..take |-> map_from_z(z_bits[z_bit_index + k], msbs[k])]
           IN  ExtractWalk(img, contact_key, z_bits, b + 1, encrypted_bits \o m_block)

(* step 4 of both extractors: the marker and, for images, the header are    *)
(* left as they are, the rest is decrypted                                  *)
DecryptContent(encrypted_bits, contact_key) ==
  LET type_marker == encrypted_bits[1]
      encrypted_content == Drop(encrypted_bits, 1)
  IN  IF type_marker = 1 /\ Len(encrypted_content) > IMAGE_HEADER_SIZE
      THEN LET image_header     == Slice(encrypted_content, 0, IMAGE_HEADER_SIZE)
               encrypted_pixels == Drop(encrypted_content, IMAGE_HEADER_SIZE)
           IN  image_header \o xor_decrypt(encrypted_pixels, contact_key)
      ELSE xor_decrypt(encrypted_content, contact_key)

(* a noise image that repeats the content bits over all its pixels *)
NoiseImageRepeated(content_bits) ==
  ImageSecret(noise_size, noise_size, "L",
    [i \in 1..(noise_size * noise_size) |->
       << IF Len(content_bits) > 0
          THEN content_bits[((i - 1) % Len(content_bits)) + 1] * 255
          ELSE 128 >>])

(* the 64x64 grayscale image the except branches build *)
NoiseImage(content_bits) ==
  ImageSecret(noise_size, noise_size, "L",
    [i \in 1..(noise_size * noise_size) |->
       << IF i - 1 < Len(content_bits)
          THEN content_bits[((i - 1) % Len(content_bits)) + 1] * 255
          ELSE 128 >>])

ExtractFailure(why) ==
  [status |-> "error", error |-> why, secret |-> NoneSecret, secret_type |-> "",
   info |-> [type |-> "", size |-> <<>>, is_color |-> -1, type_marker |-> -1,
             total_bits |-> 0, content_bits |-> 0, has_error |-> FALSE],
   visited |-> 0, recovered |-> <<>>, content |-> <<>>]

(* the info dictionary; size <<>> and is_color -1 stand for None, has_error *)
(* for the presence of the 'error' entry; info['length'] is the length of   *)
(* the returned text                                                       *)
Info(type, size, is_color, type_marker, content_bits, has_error) ==
  [type |-> type, size |-> size, is_color |-> is_color, type_marker |-> type_marker,
   total_bits |-> Len(content_bits) + 1, content_bits |-> Len(content_bits),
   has_error |-> has_error]

(* whether binary_to_image(binary) raises: its body is one try block whose  *)
(* except returns (None, None, None), so no exception leaves it             *)
binary_to_image_raises(binary) == FALSE

(* extract_secret(cover_image, z_bits, secret_type, contact_key); recovered *)
(* and content record the locals encrypted_bits and content_bits            *)
extract_secret(cover_image, z_bits, secret_type, contact_key) ==
  IF InvalidDimensions(cover_image) THEN ExtractFailure("InvalidDimensions")
  ELSE
    LET walk == ExtractWalk(cover_image, contact_key, z_bits, 0, <<>>)
        encrypted_bits == walk.encrypted_bits
    IN  IF Len(encrypted_bits) < 1 THEN ExtractFailure("NoTypeMarker")
        ELSE
          LET type_marker  == encrypted_bits[1]
              content_bits == DecryptContent(encrypted_bits, contact_key)
              decoded      == binary_to_image(content_bits)
          IN  IF secret_type = "text"
              THEN [status |-> "ok", error |-> "",
                    secret |-> TextSecret(binary_to_text(content_bits)), secret_type |-> "text",
                    info |-> Info("text", <<>>, -1, type_marker, content_bits, FALSE),
                    visited |-> walk.visited, recovered |-> encrypted_bits,
                    content |-> content_bits]
              ELSE IF binary_to_image_raises(content_bits)
              THEN [status |-> "ok", error |-> "",
                    secret |-> NoiseImage(content_bits), secret_type |-> "image",
                    info |-> Info("image", <<noise_size, noise_size>>, 0, type_marker,
                                  content_bits, TRUE),
                    visited |-> walk.visited, recovered |-> encrypted_bits,
                    content |-> content_bits]
              ELSE [status |-> "ok", error |-> "",
                    secret |-> decoded.img, secret_type |-> "image",
                    info |-> Info("image", decoded.size, decoded.is_color, type_marker,
                                  content_bits, FALSE),
                    visited |-> walk.visited, recovered |-> encrypted_bits,
                    content |-> content_bits]

(* detect_and_extract(cover_image, z_bits, contact_key): no dimension       *)
(* check; the blocks are those of height // 8 rows and width // 8 columns   *)
detect_and_extract(cover_image, z_bits, contact_key) ==
  LET walk == ExtractWalk(cover_image, contact_key, z_bits, 0, <<>>)
      encrypted_bits == walk.encrypted_bits
  IN  IF Len(encrypted_bits) < 1 THEN ExtractFailure("NoTypeMarker")
      ELSE
        LET type_marker  == encrypted_bits[1]
            content_bits == DecryptContent(encrypted_bits, contact_key)
            decoded      == binary_to_image(content_bits)
        IN  IF type_marker = 0
            THEN [status |-> "ok", error |-> "",
                  secret |-> TextSecret(binary_to_text(content_bits)), secret_type |-> "text",
                  info |-> Info("text", <<>>, -1, type_marker, content_bits, FALSE),
                  visited |-> walk.visited, recovered |-> encrypted_bits,
                    content |-> content_bits]
            ELSE IF binary_to_image_raises(content_bits) \/ decoded.img = NoneSecret
            THEN [status |-> "ok", error |-> "",
                  secret |-> NoiseImage(content_bits), secret_type |-> "image",
                  info |-> Info("image", <<noise_size, noise_size>>, 0, type_marker,
                                content_bits, TRUE),
                  visited |-> walk.visited, recovered |-> encrypted_bits,
                    content |-> content_bits]
            ELSE [status |-> "ok", error |-> "",
                  secret |-> decoded.img, secret_type |-> "image",
                  info |-> Info("image", decoded.size, decoded.is_color, type_marker,
                                content_bits, FALSE),
                  visited |-> walk.visited, recovered |-> encrypted_bits,
                    content |-> content_bits]

(***************************************************************************)
(* image_encoding.py, text_encoding.py and interface.py: the carrier codec *)
(* A carrier image is [size, mode, pixels]: (width, height), 'L', and the  *)
(* pixel values in row-major order.                                        *)
(***************************************************************************)
CARRIER_HEADER_SIZE == 72

(* binary_operations.int_to_binary: bin(number)[2:].zfill(bit_length) *)
int_to_binary(number, bit_length) == FormatBin(number, bit_length)

(* binary_operations.binary_to_int *)
binary_to_int(binary) == BitsToInt(binary)

(* int(math.sqrt(n)) *)
ISqrt(n) == CHOOSE r \in 0..n : r * r <= n /\ (r + 1) * (r + 1) > n

(* math.ceil(n / width), width > 0 *)
CeilDiv(n, width) == (n + width - 1) \div width

CarrierImage(width, height, pixels) == [size |-> <<width, height>>, mode |-> "L", pixels |-> pixels]

NoImage == [size |-> <<0, 0>>, mode |-> "none", pixels |-> <<>>]

(* a byte padding that pads nothing *)
PadNothing(bits) == bits

(* bits + [0] * padding up to a multiple of 8 *)
PadToByte(bits) ==
  IF Len(bits) % 8 # 0
  THEN LET padding == 8 - (Len(bits) % 8) IN bits \o [k \in 1..padding |-> 0]
  ELSE bits

(* every 8 bits one pixel value; a last group shorter than 8 is read as it is *)
PackPixels(bits) ==
  [k \in 1..CeilDiv(Len(bits), 8) |-> binary_to_int(Slice(bits, 8 * (k - 1), 8 * k))]

(* the pixels zero-filled up to width * height *)
FillPixels(pixels, width, height) ==
  Slice(pixels \o [k \in 1..(width * height - Len(pixels)) |-> 0], 0, width * height)

(* every pixel 8 bits *)
UnpackPixels(pixels) == Flatten([k \in 1..Len(pixels) |-> int_to_binary(pixels[k], 8)])

(* image_encoding.z_to_image; the division by a width of 0 raises *)
z_to_image(z_bits) ==
  LET num_bits == Len(z_bits)
      num_pixels == CeilDiv(num_bits, 8)
      pixels == PackPixels(PadToByte(z_bits))
      width == ISqrt(num_pixels)
  IN  IF width = 0
      THEN [status |-> "error", error |-> "ZeroDivisionError", image |-> NoImage]
      ELSE LET height == CeilDiv(num_pixels, width)
           IN  [status |-> "ok", error |-> "",
                image |-> CarrierImage(width, height, FillPixels(pixels, width, height))]

(* image_encoding.image_to_z *)
image_to_z(image, original_bit_length) ==
  LET z_bits == UnpackPixels(image.pixels)
  IN  Slice(z_bits, 0, original_bit_length)

(* text_encoding.z_to_text: one character per bit *)
z_to_text(z_bits) == [k \in 1..Len(z_bits) |-> IF z_bits[k] = 0 THEN "0" ELSE "1"]

(* text_encoding.text_to_z *)
text_to_z(z_text) == [k \in 1..Len(z_text) |-> IF z_text[k] = "0" THEN 0 ELSE 1]

(* image_encoding.z_to_image_with_header *)
z_to_image_with_header(z_bits, style_num, img_num, img_size) ==
  LET length == Len(z_bits)
      header_bits == int_to_binary(length, 32) \o int_to_binary(style_num, 8)
                     \o int_to_binary(img_num, 16) \o int_to_binary(img_size, 16)
      full_bits == PadToByte(header_bits \o z_bits)
      pixels == PackPixels(full_bits)
      num_pixels == Len(pixels)
      width == ISqrt(num_pixels)
      height == CeilDiv(num_pixels, width)
  IN  [image |-> CarrierImage(width, height, FillPixels(pixels, width, height)),
       length |-> length, header_bits |-> header_bits]

CarrierFailure(why) ==
  [status |-> "error", error |-> why, z_bits |-> <<>>, style_num |-> -1, img_num |-> -1, img_size |-> -1]

(* a length check that also refuses a Z-code filling the image to its end *)
InvalidLengthOrFull(z_length, all_bits) ==
  z_length <= 0 \/ z_length >= Len(all_bits) - CARRIER_HEADER_SIZE

(* the length check of image_to_z_with_header *)
InvalidLength(z_length, all_bits) ==
  z_length <= 0 \/ z_length > Len(all_bits) - CARRIER_HEADER_SIZE

(* image_encoding.image_to_z_with_header.  A declared length of 2^31 or    *)
(* more (first header bit 1) exceeds every bit count there is here and is  *)
(* refused without being evaluated.                                        *)
image_to_z_with_header(image) ==
  LET all_bits == UnpackPixels(image.pixels)
  IN  IF Len(all_bits) < CARRIER_HEADER_SIZE THEN CarrierFailure("TooSmall")
      ELSE IF all_bits[1] = 1 THEN CarrierFailure("InvalidLength")
      ELSE LET z_length == binary_to_int(Slice(all_bits, 0, 32))
               style_num == binary_to_int(Slice(all_bits, 32, 40))
               img_num == binary_to_int(Slice(all_bits, 40, 56))
               img_size == binary_to_int(Slice(all_bits, 56, 72))
           IN  IF InvalidLength(z_length, all_bits) THEN CarrierFailure("InvalidLength")
               ELSE [status |-> "ok", error |-> "",
                     z_bits |-> Slice(all_bits, 72, 72 + z_length),
                     style_num |-> style_num, img_num |-> img_num, img_size |-> img_size]

(* interface.decode_image_to_z_with_header *)
decode_image_to_z_with_header(image) ==
  LET all_bits == Flatten([k \in 1..Len(image.pixels) |-> FormatBin(image.pixels[k], 8)])
  IN  IF Len(all_bits) < 72 THEN CarrierFailure("TooSmall")
      ELSE IF all_bits[1] = 1 THEN CarrierFailure("InvalidLength")
      ELSE LET z_length == BitsToInt(Slice(all_bits, 0, 32))
               style_num == BitsToInt(Slice(all_bits, 32, 40))
               img_num == BitsToInt(Slice(all_bits, 40, 56))
               img_size == BitsToInt(Slice(all_bits, 56, 72))
           IN  IF z_length <= 0 \/ z_length > Len(all_bits) - 72 THEN CarrierFailure("InvalidLength")
               ELSE [status |-> "ok", error |-> "",
                     z_bits |-> Slice(all_bits, 72, 72 + z_length),
                     style_num |-> style_num, img_num |-> img_num, img_size |-> img_size]

(***************************************************************************)
(* The inputs of a session                                                 *)
(***************************************************************************)
MaxRows == 2
MaxCols == 5
MaxZLen == 44

(* covers of r x c whole blocks, covers without any block, and covers whose *)
(* height or width is not a multiple of 8                                   *)
ValidCovers ==
  {[h |-> 8 * r, w |-> 8 * c, pat |-> p, mode |-> "L"] :
     r \in 1..MaxRows, c \in 1..MaxCols, p \in 1..Len(Patterns)}
  \cup {[h |-> 0, w |-> 8, pat |-> 1, mode |-> "L"], [h |-> 8, w |-> 0, pat |-> 1, mode |-> "L"]}

InvalidCovers ==
  {[h |-> 12, w |-> 8, pat |-> 2, mode |-> "L"], [h |-> 8, w |-> 12, pat |-> 2, mode |-> "L"],
   [h |-> 20, w |-> 17, pat |-> 2, mode |-> "L"], [h |-> 4, w |-> 8, pat |-> 1, mode |-> "L"],
   [h |-> 16, w |-> 15, pat |-> 1, mode |-> "L"]}

(* colour covers: two of whole blocks, one whose height is not a multiple *)
(* of 8                                                                    *)
ColourCovers ==
  {[h |-> 8, w |-> 8, pat |-> 2, mode |-> "RGB"], [h |-> 8, w |-> 16, pat |-> 1, mode |-> "RGB"],
   [h |-> 12, w |-> 8, pat |-> 2, mode |-> "RGB"]}

Covers == ValidCovers \cup InvalidCovers \cup ColourCovers

Secrets ==
  { TextSecret(<<>>),
    TextSecret(<<72>>),
    TextSecret(<<72, 105>>),
    TextSecret(<<233>>),
    TextSecret(<<20013>>),
    TextSecret(<<72, 101, 108, 108, 111, 44, 32, 87, 111, 114, 108, 100, 33>>),
    ImageSecret(1, 1, "L", << <<200>> >>),
    ImageSecret(2, 1, "L", << <<0>>, <<255>> >>),
    ImageSecret(1, 1, "RGB", << <<255, 128, 64>> >>),
    ImageSecret(1, 1, "RGBA", << <<10, 20, 30, 40>> >>),
    ImageSecret(0, 0, "L", <<>>),
    ImageSecret(65536, 0, "L", <<>>) }

(* Z-codes that reach the receiver by another way than embed_secret *)
ZPattern(len, p) == [i \in 1..len |-> CASE p = 0 -> 0 [] p = 1 -> 1 [] p = 2 -> i % 2]

SuppliedZ == {ZPattern(len, p) : len \in {0, 1, 2, 21, 35, 36, MaxZLen}, p \in 0..2}

CapacityDims == {0, 7, 8, 9, 16, 20, 512}

(***************************************************************************)
(* The state machine: one session of a caller                              *)
(*   cover  the caller's cover image                                       *)
(*   pc     ready -> queried | failed | embedded, received -> extracted    *)
(*   emb    the embed_secret call made: its arguments and what it returned *)
(*   zcode  the Z-code handed to the receiver                              *)
(*   ext    the extraction call made: its arguments and what it returned   *)
(*   cap    the calculate_capacity query made                              *)
(***************************************************************************)
NoEmbed == [secret |-> NoneSecret, key |-> NoneKey, res |-> EmbedFailure("NotCalled")]

NoExtract == [op |-> "", secret_type |-> "", key |-> NoneKey, res |-> ExtractFailure("NotCalled")]

NoCapacity == [called |-> FALSE, w |-> 0, h |-> 0, by_config |-> 0, by_embed |-> 0]

NoUnit == [op |-> "none"]

Init ==
  /\ cover \in Covers
  /\ pc = "ready"
  /\ emb = NoEmbed
  /\ zcode = <<>>
  /\ ext = NoExtract
  /\ cap = NoCapacity
  /\ unit = NoUnit

CalculateCapacity(w, h) ==
  /\ pc = "ready"
  /\ cap' = [called |-> TRUE, w |-> w, h |-> h,
             by_config |-> config_calculate_capacity(w, h),
             by_embed |-> calculate_capacity(w, h)]
  /\ pc' = "queried"
  /\ UNCHANGED <<cover, emb, zcode, ext, unit>>

Embed(secret, key) ==
  /\ pc = "ready"
  /\ LET res == embed_secret(cover, secret, key)
     IN  /\ emb' = [secret |-> secret, key |-> key, res |-> res]
         /\ zcode' = res.z_bits
         /\ pc' = IF res.status = "ok" THEN "embedded" ELSE "failed"
  /\ cover' = CallerImage(cover)
  /\ UNCHANGED <<ext, cap, unit>>

Receive(z) ==
  /\ pc = "ready"
  /\ zcode' = z
  /\ pc' = "received"
  /\ UNCHANGED <<cover, emb, ext, cap, unit>>

Extract(secret_type, key) ==
  /\ pc \in {"embedded", "received"}
  /\ ext' = [op |-> "extract_secret", secret_type |-> secret_type, key |-> key,
             res |-> extract_secret(cover, zcode, secret_type, key)]
  /\ pc' = "extracted"
  /\ cover' = CallerImage(cover)
  /\ UNCHANGED <<emb, zcode, cap, unit>>

Detect(key) ==
  /\ pc \in {"embedded", "received"}
  /\ ext' = [op |-> "detect_and_extract", secret_type |-> "", key |-> key,
             res |-> detect_and_extract(cover, zcode, key)]
  /\ pc' = "extracted"
  /\ cover' = CallerImage(cover)
  /\ UNCHANGED <<emb, zcode, cap, unit>>

Next ==
  \/ \E w \in CapacityDims, h \in CapacityDims : CalculateCapacity(w, h)
  \/ \E secret \in Secrets, key \in Keys : Embed(secret, key)
  \/ \E z \in SuppliedZ : Receive(z)
  \/ \E secret_type \in {"text", "image"}, key \in Keys : Extract(secret_type, key)
  \/ \E key \in Keys : Detect(key)

Spec == Init /\ [][Next]_vars

(***************************************************************************)
(* The building blocks called on their own: one call of a function of the  *)
(* mapping, cipher, carrier, permutation or averaging modules              *)
(*   unit   the call made: the function group, its arguments, its results  *)
(***************************************************************************)
MaxCipherLen == 264

BitPattern(len, p) ==
  [i \in 1..len |-> CASE p = 0 -> 0 [] p = 1 -> 1 [] p = 2 -> i % 2 [] p = 3 -> ((i * i) \div 3) % 2]

CipherInputs == {BitPattern(len, p) : len \in {0, 1, 8, 9, 255, 256, 257, MaxCipherLen}, p \in 0..3}

MaxCarrierLen == 40

CarrierZCodes == {BitPattern(len, p) : len \in {1, 2, 8, 9, 24, MaxCarrierLen}, p \in 0..3}

(* Z-codes and images whose header fields are looked at on their own *)
FieldZCodes == {BitPattern(len, p) : len \in {1, 9}, p \in 1..2}

FieldImages ==
  { ImageSecret(1, 1, "L", << <<200>> >>),
    ImageSecret(2, 1, "RGB", << <<255, 128, 64>>, <<1, 2, 3>> >>),
    ImageSecret(1, 1, "RGBA", << <<10, 20, 30, 40>> >>),
    ImageSecret(65535, 0, "L", <<>>),
    ImageSecret(65536, 0, "L", <<>>),
    ImageSecret(0, 65536, "RGB", <<>>) }

(* image contents: a header of any size and flags, then pixel bits that    *)
(* fall short of, match or exceed what the header announces                *)
MaxPixelBits == 64

ImageContents ==
  {FormatBin(w, 16) \o FormatBin(h, 16) \o <<is_color, has_alpha>> \o BitPattern(len, p) :
     w \in 0..2, h \in 1..2, is_color \in 0..1, has_alpha \in 0..1,
     len \in {0, 7, 8, 23, 24, 31, 32, 56, MaxPixelBits}, p \in 1..2}
  \cup {BitPattern(len, 2) : len \in {0, 16, 33}}

(* content bits that fill none, some, all or more than all of the 4096     *)
(* pixels of the noise image                                               *)
MaxNoiseBits == 4097

NoiseContents == {BitPattern(len, p) : len \in {0, 1, 33, 4095, 4096, MaxNoiseBits}, p \in 0..3}

PlainZCodes == CarrierZCodes \cup {<<>>}

(* carrier images handed to the decoders: images too small for a header,   *)
(* images whose header declares `declared` bits before n bits of Z-code and *)
(* the byte padding, and images whose declared length starts with a 1 bit   *)
(* (huge)                                                                   *)
DeclaredCarrier(declared, n, p) ==
  LET header_bits == FormatBin(declared, 32) \o FormatBin(2, 8) \o FormatBin(5, 16) \o FormatBin(256, 16)
      pixels == PackPixels(PadToByte(header_bits \o BitPattern(n, p)))
  IN  [image |-> CarrierImage(Len(pixels), 1, pixels), declared |-> declared, huge |-> FALSE]

DecodeInputs ==
  {[image |-> CarrierImage(sz[1], sz[2], [k \in 1..(sz[1] * sz[2]) |-> (7 * k) % 256]),
    declared |-> 0, huge |-> FALSE] : sz \in {<<0, 0>>, <<1, 1>>, <<2, 4>>, <<4, 2>>}}
  \cup {DeclaredCarrier(declared, n, p) :
          declared \in {0, 1, 7, 8, 9, 12, 16, 17, 24, 25, 65536}, n \in {0, 1, 8, 12, 24}, p \in 1..3}
  \cup {[image |-> CarrierImage(3, 3, <<128, 0, 0, 1, 2, 0, 5, 1, 0>>), declared |-> 0, huge |-> TRUE],
         [image |-> CarrierImage(4, 3, <<255, 255, 255, 255, 2, 0, 5, 1, 0, 170, 85, 1>>),
          declared |-> 0, huge |-> TRUE]}

(* blocks by their first row; the other rows are TEST_IMAGE's *)
FirstRows ==
  { TEST_IMAGE[1],
    <<7, 6, 5, 4, 3, 2, 1, 0>>,
    <<0, 40, 80, 120, 160, 200, 240, 24>>,
    <<255, 0, 128, 127, 128, 0, 255, 9>>,
    <<5, 5, 1, 1, 9, 9, 9, 9>>,
    <<200, 200, 200, 200, 200, 200, 200, 200>> }

(* first rows for the calls under two keys, and the keys: those of a       *)
(* session and one more whose seed gives the shuffle of "Bob"               *)
PairRows == {TEST_IMAGE[1], <<7, 6, 5, 4, 3, 2, 1, 0>>, <<5, 5, 1, 1, 9, 9, 9, 9>>}

ShuffleKeys == Keys \cup {"2964"}

BlockWithFirstRow(row) == [r \in 1..BLOCK_SIZE |-> IF r = 1 THEN row ELSE TEST_IMAGE[r]]

AverageBlocks ==
  {Tile(t) : t \in 1..4}
  \cup {BlockWithFirstRow(row) : row \in FirstRows}
  \cup {[r \in 1..BLOCK_SIZE |-> [c \in 1..BLOCK_SIZE |-> v]] : v \in {1, 127, 128, 255}}
  \cup {[r \in 1..BLOCK_SIZE |-> [c \in 1..BLOCK_SIZE |-> (r * r * 37 + c * k) % 256]] : k \in 1..100}

UnitsInit ==
  /\ cover = [h |-> 8, w |-> 8, pat |-> 1, mode |-> "L"]
  /\ pc = "ready"
  /\ emb = NoEmbed
  /\ zcode = <<>>
  /\ ext = NoExtract
  /\ cap = NoCapacity
  /\ unit = NoUnit

Mapping(secret_bit, msb) ==
  /\ pc = "ready"
  /\ LET z_bit == map_to_z(secret_bit, msb)
     IN  unit' = [op |-> "mapping", secret_bit |-> secret_bit, msb |-> msb,
                  z_bit |-> z_bit,
                  back |-> map_from_z(z_bit, msb),
                  config_z_bit |-> config_MAPPING_TABLE[<<secret_bit, msb>>],
                  config_back |-> config_REVERSE_MAPPING_TABLE[<<z_bit, msb>>],
                  reverse |-> map_from_z(secret_bit, msb)]
  /\ pc' = "called"
  /\ UNCHANGED <<cover, emb, zcode, ext, cap>>

Cipher(bits, key) ==
  /\ pc = "ready"
  /\ LET once == xor_cipher(bits, key)
         encrypted == xor_encrypt(bits, key)
     IN  unit' = [op |-> "cipher", bits |-> bits, key |-> key,
                  once |-> once,
                  twice |-> xor_cipher(once, key),
                  encrypted |-> encrypted,
                  decrypted |-> xor_decrypt(encrypted, key)]
  /\ pc' = "called"
  /\ UNCHANGED <<cover, emb, zcode, ext, cap>>

CarrierWithHeader(z_bits, style_num, img_num, img_size) ==
  /\ pc = "ready"
  /\ LET enc == z_to_image_with_header(z_bits, style_num, img_num, img_size)
     IN  unit' = [op |-> "carrier_header", z_bits |-> z_bits, style_num |-> style_num,
                  img_num |-> img_num, img_size |-> img_size,
                  enc |-> enc,
                  dec |-> image_to_z_with_header(enc.image)]
  /\ pc' = "called"
  /\ UNCHANGED <<cover, emb, zcode, ext, cap>>

(* the header fields alone, for values of any size: the carrier header of  *)
(* z_to_image_with_header and the content image_to_binary builds            *)
CarrierFields(z_bits, style_num, img_num, img_size) ==
  /\ pc = "ready"
  /\ LET enc == z_to_image_with_header(z_bits, style_num, img_num, img_size)
     IN  unit' = [op |-> "carrier_fields", z_bits |-> z_bits, style_num |-> style_num,
                  img_num |-> img_num, img_size |-> img_size,
                  header_bits |-> enc.header_bits,
                  all_bits |-> UnpackPixels(enc.image.pixels)]
  /\ pc' = "called"
  /\ UNCHANGED <<cover, emb, zcode, ext, cap>>

ImageFields(image) ==
  /\ pc = "ready"
  /\ unit' = [op |-> "image_fields", image |-> image, binary |-> image_to_binary(image).binary]
  /\ pc' = "called"
  /\ UNCHANGED <<cover, emb, zcode, ext, cap>>

(* binary_to_image on content bits of any kind *)
BinaryToImage(binary) ==
  /\ pc = "ready"
  /\ unit' = [op |-> "binary_to_image", binary |-> binary,
              pixels |-> IF Len(binary) < 34 THEN <<>> ELSE ReadPixels(binary),
              res |-> binary_to_image(binary)]
  /\ pc' = "called"
  /\ UNCHANGED <<cover, emb, zcode, ext, cap>>

(* the except branch of the extractors on content bits of any length *)
NoiseFallback(content_bits) ==
  /\ pc = "ready"
  /\ unit' = [op |-> "noise", content_bits |-> content_bits, image |-> NoiseImage(content_bits)]
  /\ pc' = "called"
  /\ UNCHANGED <<cover, emb, zcode, ext, cap>>

CarrierDecode(input) ==
  /\ pc = "ready"
  /\ unit' = [op |-> "carrier_decode", image |-> input.image,
              declared |-> input.declared, huge |-> input.huge,
              all_bits |-> UnpackPixels(input.image.pixels),
              dec |-> image_to_z_with_header(input.image),
              dec_interface |-> decode_image_to_z_with_header(input.image)]
  /\ pc' = "called"
  /\ UNCHANGED <<cover, emb, zcode, ext, cap>>

CarrierPlain(z_bits) ==
  /\ pc = "ready"
  /\ LET enc == z_to_image(z_bits)
         z_text == z_to_text(z_bits)
     IN  unit' = [op |-> "carrier_plain", z_bits |-> z_bits,
                  enc |-> enc,
                  back |-> IF enc.status = "ok" THEN image_to_z(enc.image, Len(z_bits)) ELSE <<>>,
                  z_text |-> z_text,
                  text_back |-> text_to_z(z_text)]
  /\ pc' = "called"
  /\ UNCHANGED <<cover, emb, zcode, ext, cap>>

GenerateQ(row, contact_key, sorted_indices1) ==
  /\ pc = "ready"
  /\ unit' = [op |-> "generate_Q", first_row |-> SubSeq(row, 1, Q_LENGTH), key |-> contact_key,
              sorted_indices1 |-> sorted_indices1,
              Q |-> KeyedQ(sorted_indices1, Q_LENGTH, contact_key),
              again |-> KeyedQ(sorted_indices1, Q_LENGTH, contact_key),
              by_position |-> generate_Q_from_block(BlockWithFirstRow(row), Q_LENGTH, contact_key)]
  /\ pc' = "called"
  /\ UNCHANGED <<cover, emb, zcode, ext, cap>>

(* two calls on the same block under two keys *)
GenerateQTwice(row, K1, K2, sorted_indices1) ==
  /\ pc = "ready"
  /\ unit' = [op |-> "generate_Q_twice", first_row |-> SubSeq(row, 1, Q_LENGTH),
              K1 |-> K1, K2 |-> K2, sorted_indices1 |-> sorted_indices1,
              Q1 |-> KeyedQ(sorted_indices1, Q_LENGTH, K1),
              Q2 |-> KeyedQ(sorted_indices1, Q_LENGTH, K2)]
  /\ pc' = "called"
  /\ UNCHANGED <<cover, emb, zcode, ext, cap>>

Averages(block_8x8) ==
  /\ pc = "ready"
  /\ unit' = [op |-> "averages", block |-> block_8x8,
              averages_21 |-> calculate_hierarchical_averages(block_8x8)]
  /\ pc' = "called"
  /\ UNCHANGED <<cover, emb, zcode, ext, cap>>

UnitsNext ==
  \/ \E secret_bit \in 0..1, msb \in 0..1 : Mapping(secret_bit, msb)
  \/ \E bits \in CipherInputs, key \in Keys : Cipher(bits, key)
  \/ \E z_bits \in CarrierZCodes, style_num \in {0, 2, 255}, img_num \in {0, 5, 65535},
        img_size \in {0, 256, 65535} :
       CarrierWithHeader(z_bits, style_num, img_num, img_size)
  \/ \E z_bits \in FieldZCodes, style_num \in {0, 255, 256}, img_num \in {5, 65535, 65536},
        img_size \in {256, 65536} :
       CarrierFields(z_bits, style_num, img_num, img_size)
  \/ \E image \in FieldImages : ImageFields(image)
  \/ \E binary \in ImageContents : BinaryToImage(binary)
  \/ \E content_bits \in NoiseContents : NoiseFallback(content_bits)
  \/ \E input \in DecodeInputs : CarrierDecode(input)
  \/ \E z_bits \in PlainZCodes : CarrierPlain(z_bits)
  \/ \E row \in FirstRows, contact_key \in Keys :
       \E sorted_indices1 \in ArgSorts(SubSeq(row, 1, Q_LENGTH)) :
         GenerateQ(row, contact_key, sorted_indices1)
  \/ \E row \in PairRows, K1 \in ShuffleKeys, K2 \in ShuffleKeys :
       \E sorted_indices1 \in ArgSorts(SubSeq(row, 1, Q_LENGTH)) :
         GenerateQTwice(row, K1, K2, sorted_indices1)
  \/ \E block_8x8 \in AverageBlocks : Averages(block_8x8)

Units == UnitsInit /\ [][UnitsNext]_vars

(***************************************************************************)
(* The block loop of embed_secret and extract_secret in two phases: the    *)
(* per-block steps (Q, averages, reordering and MSBs) run for every block  *)
(* of the cover, each block at its own pace and in any order, and the      *)
(* mapping loop then runs over the stored MSBs                             *)
(*   unit   the payload, each block's stage and locals, the order in which *)
(*          the blocks completed, and the two bit lists once mapped        *)
(***************************************************************************)
MaxPhaseCols == 3

PhaseCovers ==
  {[h |-> 8, w |-> 8 * c, pat |-> p, mode |-> "L"] : c \in 2..MaxPhaseCols, p \in 1..Len(Patterns)}
  \cup {[h |-> 16, w |-> 16, pat |-> 2, mode |-> "L"], [h |-> 8, w |-> 16, pat |-> 1, mode |-> "RGB"]}

PhaseSecrets ==
  { TextSecret(<<72, 105>>),
    TextSecret(<<20013>>),
    ImageSecret(2, 1, "L", << <<0>>, <<255>> >>),
    ImageSecret(1, 1, "RGB", << <<255, 128, 64>> >>) }

PhaseKeys == {NoneKey, "Alice", "Bob"}

NumBlocks(img) == (img.h \div BLOCK_SIZE) * (img.w \div BLOCK_SIZE)

FreshBlock == [stage |-> 0, Q |-> <<>>, averages_21 |-> <<>>, msbs |-> <<>>]

(* a mapping loop that takes the blocks in the order they completed *)
MapOverBlocksAsCompleted(bits, blocks, order, table) ==
  [n \in 1..Min(Len(bits), Len(order) * TOTAL_AVERAGES_PER_UNIT) |->
     table[<<bits[n], blocks[order[((n - 1) \div TOTAL_AVERAGES_PER_UNIT) + 1]].msbs[((n - 1) % TOTAL_AVERAGES_PER_UNIT) + 1]>>]]

(* the mapping loop over stored MSBs: bit n meets MSB n mod 21 of block     *)
(* n div 21, the blocks numbered in row-major order, until the bits or the  *)
(* blocks run out                                                          *)
MapOverBlocks(bits, blocks, order, table) ==
  [n \in 1..Min(Len(bits), Len(order) * TOTAL_AVERAGES_PER_UNIT) |->
     table[<<bits[n], blocks[(n - 1) \div TOTAL_AVERAGES_PER_UNIT].msbs[((n - 1) % TOTAL_AVERAGES_PER_UNIT) + 1]>>]]

PhasesInit ==
  /\ cover \in PhaseCovers
  /\ pc = "ready"
  /\ emb = NoEmbed
  /\ zcode = <<>>
  /\ ext = NoExtract
  /\ cap = NoCapacity
  /\ unit = NoUnit

(* steps 1 to 3 of embed_secret: the checks, the payload and its cipher *)
Prepare(secret, key) ==
  /\ pc = "ready"
  /\ LET res == embed_secret(cover, secret, key)
     IN  /\ res.status = "ok"
         /\ unit' = [op |-> "phases", secret |-> secret, key |-> key,
                     encrypted_bits |-> res.encrypted_bits,
                     blocks |-> [b \in 0..(NumBlocks(cover) - 1) |-> FreshBlock],
                     order |-> <<>>, z_bits |-> <<>>, recovered |-> <<>>]
  /\ pc' = "computing"
  /\ UNCHANGED <<cover, emb, zcode, ext, cap>>

BlockOf(b) == BlockAt(cover, b \div (cover.w \div BLOCK_SIZE), b % (cover.w \div BLOCK_SIZE))

DeriveQ(b) ==
  /\ pc = "computing"
  /\ unit.blocks[b].stage = 0
  /\ unit' = [unit EXCEPT !.blocks[b].stage = 1,
                          !.blocks[b].Q = generate_Q_from_block(BlockOf(b), Q_LENGTH, unit.key)]
  /\ UNCHANGED <<cover, pc, emb, zcode, ext, cap>>

Average(b) ==
  /\ pc = "computing"
  /\ unit.blocks[b].stage = 1
  /\ unit' = [unit EXCEPT !.blocks[b].stage = 2,
                          !.blocks[b].averages_21 = calculate_hierarchical_averages(BlockOf(b))]
  /\ UNCHANGED <<cover, pc, emb, zcode, ext, cap>>

TakeMsbs(b) ==
  /\ pc = "computing"
  /\ unit.blocks[b].stage = 2
  /\ LET reordered_averages == apply_Q_three_rounds(unit.blocks[b].averages_21, unit.blocks[b].Q)
     IN  unit' = [unit EXCEPT !.blocks[b].stage = 3,
                              !.blocks[b].msbs = get_msbs(reordered_averages),
                              !.order = Append(unit.order, b)]
  /\ UNCHANGED <<cover, pc, emb, zcode, ext, cap>>

(* the mapping loops of embed_secret and, on its Z-code, of extract_secret *)
MapBits ==
  /\ pc = "computing"
  /\ Len(unit.order) = NumBlocks(cover)
  /\ LET z_bits == MapOverBlocks(unit.encrypted_bits, unit.blocks, unit.order, MAPPING_TABLE)
     IN  unit' = [unit EXCEPT !.z_bits = z_bits,
                              !.recovered = MapOverBlocks(z_bits, unit.blocks, unit.order,
                                                          REVERSE_MAPPING_TABLE)]
  /\ pc' = "mapped"
  /\ UNCHANGED <<cover, emb, zcode, ext, cap>>

PhasesNext ==
  \/ \E secret \in PhaseSecrets, key \in PhaseKeys : Prepare(secret, key)
  \/ \E b \in 0..(NumBlocks(cover) - 1) : DeriveQ(b)
  \/ \E b \in 0..(NumBlocks(cover) - 1) : Average(b)
  \/ \E b \in 0..(NumBlocks(cover) - 1) : TakeMsbs(b)
  \/ MapBits

Phases == PhasesInit /\ [][PhasesNext]_vars

(***************************************************************************)
(* Properties                                                              *)
(***************************************************************************)
EmbedCalled == emb.res.error # "NotCalled"

EmbedOk == emb.res.status = "ok"

Extracted == pc = "extracted"

(* the serialized content of a secret and the length of its payload *)
PlainContent(secret) ==
  IF secret.kind = "text" THEN text_to_binary(secret.cps) ELSE image_to_binary(secret).binary

Marker(secret) == IF secret.kind = "text" THEN 0 ELSE 1

PayloadLength(secret) == 1 + Len(PlainContent(secret))

CoverCapacity == (cover.w \div 8) * (cover.h \div 8) * 21

CoverMultipleOf8 == cover.h % 8 = 0 /\ cover.w % 8 = 0

(* extract_secret called on the Z-code embed_secret returned, with the      *)
(* secret_type the secret was embedded with                                 *)
ExtractOfEmbedded ==
  /\ Extracted
  /\ EmbedOk
  /\ ext.op = "extract_secret"
  /\ ext.secret_type = emb.secret.kind

(* C1: extracting, with the same key and type, the Z-code embed_secret      *)
(* returned gives back exactly the secret that was embedded.                *)
C1_RoundTrip ==
  (ExtractOfEmbedded /\ ext.key = emb.key)
    => (ext.res.status = "ok" /\ ext.res.secret = emb.secret)

(* the MSBs the first n payload bits meet, block after block, under a key *)
RECURSIVE MsbStream(_, _, _, _)
MsbStream(img, contact_key, b, n) ==
  LET num_cols == img.w \div BLOCK_SIZE
  IN  IF n <= 0 \/ b >= (img.h \div BLOCK_SIZE) * num_cols
      THEN <<>>
      ELSE Slice(BlockMsbs(img, b \div num_cols, b % num_cols, contact_key), 0, n)
             \o MsbStream(img, contact_key, b + 1, n - TOTAL_AVERAGES_PER_UNIT)

(* the key stream as a side lays it over n content bits after a marker:    *)
(* nothing for a falsy key, nothing over the 34 header bits of an image     *)
(* content longer than its header                                           *)
CipherMask(key, type_marker, n) ==
  IF Falsy(key) THEN [k \in 1..n |-> 0]
  ELSE IF type_marker = 1 /\ n > IMAGE_HEADER_SIZE
       THEN [k \in 1..IMAGE_HEADER_SIZE |-> 0] \o KeyStream(key, n - IMAGE_HEADER_SIZE)
       ELSE KeyStream(key, n)

XorSeq(a, b) == [k \in 1..Len(a) |-> Xor(a[k], b[k])]

(* what extraction under K2 recovers from the Z-code of S embedded under K1 *)
ExpectedRecovered(img, secret, K1, K2) ==
  LET plain == PlainContent(secret)
      payload == <<Marker(secret)>> \o XorSeq(plain, CipherMask(K1, Marker(secret), Len(plain)))
      n == Len(payload)
  IN  XorSeq(XorSeq(payload, MsbStream(img, K1, 0, n)), MsbStream(img, K2, 0, n))

ExpectedContent(img, secret, K1, K2) ==
  LET rec == ExpectedRecovered(img, secret, K1, K2)
  IN  XorSeq(Tail(rec), CipherMask(K2, rec[1], Len(rec) - 1))

(* C2 as stated: under a key different from the embedding key extraction    *)
(* returns a secret that differs from S.                                    *)
C2_KeySensitivity ==
  (ExtractOfEmbedded /\ ext.key # emb.key) => ext.res.secret # emb.secret

(* C2 amended: under K2 extraction recovers payload bit n as the embedded   *)
(* bit XOR msb_K1[n] XOR msb_K2[n] and decrypts the content with K2's key   *)
(* stream, laid out by the recovered marker; a text secret is returned      *)
(* changed exactly when these content bits differ from S's, and an image    *)
(* secret is returned as under K1 when they do not.                         *)
C2_KeySensitivityByMask ==
  ExtractOfEmbedded
    => LET content == ExpectedContent(cover, emb.secret, emb.key, ext.key)
           plain == PlainContent(emb.secret)
       IN  /\ ext.res.status = "ok"
           /\ ext.res.recovered = ExpectedRecovered(cover, emb.secret, emb.key, ext.key)
           /\ ext.res.content = content
           /\ emb.secret.kind = "text"
                => (ext.res.secret = emb.secret <=> content = plain)
           /\ (emb.secret.kind = "image" /\ content = plain)
                => ext.res.secret = binary_to_image(plain).img

C2_WrongKeyChangesContent ==
  /\ ExtractOfEmbedded
  /\ ext.key # emb.key
  /\ ~Falsy(ext.key)
  /\ ~Falsy(emb.key)
  /\ Len(PlainContent(emb.secret)) > 0
  /\ ext.res.status = "ok"
  /\ ext.res.content # PlainContent(emb.secret)
  /\ ext.res.secret # emb.secret

(* C3: whatever the two keys, extraction recovers the embedded type marker  *)
(* and, for an image secret, the 34 header bits.                            *)
C3_ShapeRecovered ==
  (Extracted /\ EmbedOk)
    => /\ ext.res.status = "ok"
       /\ ext.res.info.type_marker = Marker(emb.secret)
       /\ emb.secret.kind = "image"
            => Slice(ext.res.content, 0, IMAGE_HEADER_SIZE)
               = Slice(PlainContent(emb.secret), 0, IMAGE_HEADER_SIZE)

(* C4: a successful embed_secret returns exactly one Z bit per payload bit  *)
(* (marker + content), also when that is not a multiple of 21.              *)
C4_ZLengthIsPayloadLength ==
  EmbedOk => /\ Len(emb.res.z_bits) = PayloadLength(emb.secret)
             /\ emb.res.bits = PayloadLength(emb.secret)
             /\ zcode = emb.res.z_bits

C4_MidBlockStop ==
  /\ EmbedOk
  /\ PayloadLength(emb.secret) > 21
  /\ PayloadLength(emb.secret) % 21 # 0
  /\ Len(emb.res.z_bits) = PayloadLength(emb.secret)
  /\ CoverCapacity > PayloadLength(emb.secret) + 21

C6_CapacityCheck ==
  (EmbedCalled /\ CoverMultipleOf8)
    => /\ emb.res.status = "error" <=> PayloadLength(emb.secret) > CoverCapacity
       /\ emb.res.status = "error"
            => /\ emb.res.error = "CapacityExceeded"
               /\ emb.res.z_bits = <<>>
               /\ zcode = <<>>
               /\ pc = "failed"
       /\ PayloadLength(emb.secret) = CoverCapacity
            => /\ EmbedOk
               /\ Len(emb.res.z_bits) = CoverCapacity

C6_FullCover ==
  /\ EmbedOk
  /\ CoverCapacity > 0
  /\ PayloadLength(emb.secret) = CoverCapacity
  /\ Len(emb.res.z_bits) = CoverCapacity

(* C7: when the cover's height or width is not a multiple of 8,             *)
(* embed_secret and extract_secret raise before any block is visited and    *)
(* any bit produced; nothing is returned.                                   *)
C7_InvalidDimensionsRejected ==
  ~CoverMultipleOf8
    => /\ EmbedCalled
            => /\ emb.res.status = "error"
               /\ emb.res.error = "InvalidDimensions"
               /\ emb.res.visited = 0
               /\ emb.res.z_bits = <<>>
               /\ zcode = <<>>
       /\ ext.op = "extract_secret"
            => /\ ext.res.status = "error"
               /\ ext.res.error = "InvalidDimensions"
               /\ ext.res.visited = 0
               /\ ext.res.recovered = <<>>
               /\ ext.res.secret = NoneSecret

C7_ExtractRejected ==
  /\ cover.h % 8 = 0
  /\ cover.w % 8 # 0
  /\ cover.w >= 8
  /\ Len(zcode) > 0
  /\ ext.op = "extract_secret"
  /\ ext.res.status = "error"

(* C8: detect_and_extract raises, and decodes nothing, when the cover's     *)
(* height or width is not a multiple of 8.                                  *)
C8_DetectRejectsInvalidDimensions ==
  (Extracted /\ ext.op = "detect_and_extract" /\ ~CoverMultipleOf8)
    => /\ ext.res.status = "error"
       /\ ext.res.recovered = <<>>
       /\ ext.res.secret = NoneSecret

(* C9: on a cover with valid dimensions both extractors raise "cannot read  *)
(* the type marker" when no payload bit was recovered, as for an empty      *)
(* Z-code, whatever the key.                                                *)
C9_EmptyZCodeRejected ==
  (Extracted /\ CoverMultipleOf8 /\ (zcode = <<>> \/ CoverCapacity = 0))
    => /\ ext.res.status = "error"
       /\ ext.res.error = "NoTypeMarker"
       /\ ext.res.secret = NoneSecret

C9_EmptyZCodeOnCover ==
  /\ Extracted
  /\ CoverCapacity > 0
  /\ zcode = <<>>
  /\ ~Falsy(ext.key)
  /\ ext.op = "detect_and_extract"
  /\ ext.res.error = "NoTypeMarker"

(* C10: extract_secret with secret_type 'image' never raises on a Z-code of *)
(* one bit or more, and when the bits do not decode as an image it returns  *)
(* a 64x64 grayscale image with an 'error' entry, never a missing image.    *)
C10_MalformedImageFallback ==
  (/\ Extracted
   /\ ext.op = "extract_secret"
   /\ ext.secret_type = "image"
   /\ CoverMultipleOf8
   /\ CoverCapacity > 0
   /\ Len(zcode) >= 1)
    => /\ ext.res.status = "ok"
       /\ ext.res.secret.kind = "image"
       /\ Len(ext.res.content) < IMAGE_HEADER_SIZE
            => /\ ext.res.secret.w = 64
               /\ ext.res.secret.h = 64
               /\ ext.res.secret.mode = "L"
               /\ ext.res.info.has_error

(* C11: map_to_z gives 1 exactly when the secret bit equals the MSB,        *)
(* map_from_z undoes it, both tables are the same XNOR function, and the    *)
(* tables of config.py are those of mapping.py.                             *)
C11_MappingSelfConsistent ==
  unit.op = "mapping"
    => /\ unit.z_bit = (IF unit.secret_bit = unit.msb THEN 1 ELSE 0)
       /\ unit.back = unit.secret_bit
       /\ unit.reverse = unit.z_bit
       /\ unit.config_z_bit = unit.z_bit
       /\ unit.config_back = unit.back
       /\ config_MAPPING_TABLE = MAPPING_TABLE
       /\ config_REVERSE_MAPPING_TABLE = REVERSE_MAPPING_TABLE

C11_UnequalBitsMapped ==
  /\ unit.op = "mapping"
  /\ unit.secret_bit = 1
  /\ unit.msb = 0
  /\ unit.z_bit = 0
  /\ unit.back = 1

(* C12: with a non-empty key the XOR cipher applied twice gives the bits    *)
(* back and keeps their number; with an empty or absent key it returns the  *)
(* bits unchanged; so do xor_cipher and xor_encrypt then xor_decrypt.       *)
C12_CipherInvolution ==
  unit.op = "cipher"
    => /\ Len(unit.once) = Len(unit.bits)
       /\ Len(unit.encrypted) = Len(unit.bits)
       /\ unit.twice = unit.bits
       /\ unit.decrypted = unit.bits
       /\ Falsy(unit.key) => (unit.once = unit.bits /\ unit.encrypted = unit.bits)

C12_SecondDigestUsed ==
  /\ unit.op = "cipher"
  /\ ~Falsy(unit.key)
  /\ Len(unit.bits) > 256
  /\ unit.once # unit.bits
  /\ SubSeq(unit.once, 257, Len(unit.bits)) # SubSeq(unit.bits, 257, Len(unit.bits))
  /\ unit.twice = unit.bits

(* C13: for a Z-code of one bit or more, a style id of 8 bits and an item   *)
(* id and size of 16 bits, decoding the carrier image made by               *)
(* z_to_image_with_header gives back the same bits, style id, item id and   *)
(* size.                                                                    *)
C13_CarrierHeaderRoundTrip ==
  unit.op = "carrier_header"
    => /\ unit.enc.length = Len(unit.z_bits)
       /\ unit.dec.status = "ok"
       /\ unit.dec.z_bits = unit.z_bits
       /\ unit.dec.style_num = unit.style_num
       /\ unit.dec.img_num = unit.img_num
       /\ unit.dec.img_size = unit.img_size

C13_PaddedCarrierDecoded ==
  /\ unit.op = "carrier_header"
  /\ Len(unit.z_bits) % 8 # 0
  /\ \E k \in 1..Len(unit.z_bits) : unit.z_bits[k] = 1
  /\ unit.style_num = 2
  /\ unit.img_num = 5
  /\ unit.img_size = 256
  /\ Len(unit.enc.image.pixels) * 8 > CARRIER_HEADER_SIZE + Len(unit.z_bits) + 8
  /\ unit.dec.z_bits = unit.z_bits

(* C14: decoding a carrier image fails when it holds fewer than 72 bits or  *)
(* when the declared length is 0 or greater than the bits after the header; *)
(* in every other case exactly the declared number of bits is returned,     *)
(* taken from position 72 on.  Both decoders do so.                         *)
C14_CarrierDecodeValidated ==
  unit.op = "carrier_decode"
    => LET total == 8 * Len(unit.image.pixels)
           refused == \/ total < 72
                      \/ unit.huge
                      \/ unit.declared = 0
                      \/ unit.declared > total - 72
       IN  /\ unit.dec.status = "error" <=> refused
           /\ unit.dec.status = "ok"
                => /\ Len(unit.dec.z_bits) = unit.declared
                   /\ unit.dec.z_bits = SubSeq(unit.all_bits, 73, 72 + unit.declared)
           /\ unit.dec_interface = unit.dec

C14_LengthFillsImage ==
  /\ unit.op = "carrier_decode"
  /\ unit.declared = 8 * Len(unit.image.pixels) - 72
  /\ unit.declared > 0
  /\ unit.dec.status = "ok"
  /\ Len(unit.dec.z_bits) = unit.declared

(* C15: image_to_z(z_to_image(z), len(z)) returns z for a Z-code of any     *)
(* length, and text_to_z(z_to_text(z)) returns z with one character per     *)
(* bit.                                                                     *)
C15_PlainCarrierRoundTrip ==
  unit.op = "carrier_plain"
    => /\ unit.enc.status = "ok"
       /\ unit.back = unit.z_bits
       /\ Len(unit.z_text) = Len(unit.z_bits)
       /\ unit.text_back = unit.z_bits

IsPermutation1to7(Q) == Len(Q) = 7 /\ {Q[k] : k \in 1..7} = 1..7

(* the 1-based rank of position i in the stable ascending sort of values *)
StableRank(values, i) ==
  1 + Cardinality({j \in 1..Len(values) :
                     values[j] < values[i] \/ (values[j] = values[i] /\ j < i)})

RECURSIVE SumFn(_, _, _)
SumFn(f, lo, hi) == IF lo > hi THEN 0 ELSE f[lo] + SumFn(f, lo + 1, hi)

(* the sum of the pixels of rows r1..r2 and columns c1..c2 *)
SumRect(block, r1, r2, c1, c2) ==
  SumFn([r \in r1..r2 |-> SumFn([c \in c1..c2 |-> block[r][c]], c1, c2)], r1, r2)

C19_DeserializerByMarker ==
  (Extracted /\ ext.op = "extract_secret" /\ ext.res.status = "ok")
    => /\ ext.res.info.type_marker = 0
            => /\ ext.res.info.type = "text"
               /\ ext.res.secret = TextSecret(binary_to_text(ext.res.content))
       /\ ext.res.info.type_marker = 1
            => /\ ext.res.info.type = "image"
               /\ ext.res.secret = binary_to_image(ext.res.content).img

ClearPrefix(secret) == IF secret.kind = "image" THEN IMAGE_HEADER_SIZE ELSE 0

(* C21: in the payload embed_secret maps, bit 0 is the type marker, the     *)
(* next 34 bits of an image secret are its serialized header, both as they  *)
(* are; the bits after them are XORed with the key stream from its          *)
(* position 0 on, and the payload keeps the length of the plain payload.    *)
C21_EncryptionScope ==
  EmbedOk
    => LET plain == PlainContent(emb.secret)
           enc   == emb.res.encrypted_bits
           clear == ClearPrefix(emb.secret)
           rest  == Drop(plain, clear)
           mask  == IF Falsy(emb.key) THEN [k \in 1..Len(rest) |-> 0]
                    ELSE KeyStream(emb.key, Len(rest))
       IN  /\ Len(enc) = 1 + Len(plain)
           /\ enc[1] = Marker(emb.secret)
           /\ Slice(enc, 1, 1 + clear) = Slice(plain, 0, clear)
           /\ Drop(enc, 1 + clear) = XorSeq(rest, mask)

(* C22: Z bit n of a successful embed_secret is 1 exactly when payload bit  *)
(* n equals the MSB of average 7r + Q_b[p] - 1 of block b = n div 21, the   *)
(* blocks taken in row-major order, with k = n mod 21, r = k div 7 and      *)
(* p = k mod 7: one Q per block, applied inside each group of 7.            *)
C22_ZClosedForm ==
  (EmbedOk /\ pc = "embedded")
    => LET num_cols == cover.w \div 8
           L == Len(emb.res.z_bits)
       IN  \A b \in 0..((L - 1) \div 21) :
             LET i == b \div num_cols
                 j == b % num_cols
                 block == BlockAt(cover, i, j)
                 Q_b == generate_Q_from_block(block, 7, emb.key)
                 averages_b == calculate_hierarchical_averages(block)
             IN  \A r \in 0..2, p \in 0..6 :
                   LET n == 21 * b + 7 * r + p
                       msb == IF averages_b[7 * r + Q_b[p + 1]] >= 128 THEN 1 ELSE 0
                   IN  n < L => (emb.res.z_bits[n + 1] = 1 <=> emb.res.encrypted_bits[n + 1] = msb)

(* a keyed embedding that goes past the first block of a cover whose       *)
(* blocks differ                                                           *)
C22_SeveralBlocksKeyed ==
  /\ EmbedOk
  /\ ~Falsy(emb.key)
  /\ emb.res.visited >= 3
  /\ cover.pat = 2
  /\ cover.h = 16
  /\ Len(emb.res.z_bits) > 42

(* C23: on a cover whose sides are multiples of 8, extract_secret and       *)
(* detect_and_extract recover one payload bit per supplied Z bit, also     *)
(* when the Z-code is longer than the cover's capacity.                     *)
C23_EveryZBitConsumed ==
  (Extracted /\ CoverMultipleOf8 /\ ext.res.status = "ok")
    => Len(ext.res.recovered) = Len(zcode)

(* C24: the MSBs of the blocks computed first, block by block in any order *)
(* and interleaving, and the bits then mapped in row-major block order and *)
(* position 0..20, give the Z-code of embed_secret and the recovered bits  *)
(* of extract_secret.                                                      *)
C24_BlockIndependence ==
  (pc = "mapped" /\ unit.op = "phases")
    => /\ unit.z_bits = embed_secret(cover, unit.secret, unit.key).z_bits
       /\ unit.recovered = ExtractWalk(cover, unit.key, unit.z_bits, 0, <<>>).encrypted_bits
       /\ unit.recovered = extract_secret(cover, unit.z_bits, unit.secret.kind, unit.key).recovered

(* blocks completed out of row-major order before a payload of several     *)
(* blocks was mapped                                                       *)
C24_BlocksOutOfOrder ==
  /\ pc = "mapped"
  /\ unit.op = "phases"
  /\ Len(unit.z_bits) > 42
  /\ unit.order[1] > unit.order[2]
  /\ ~Falsy(unit.key)

(* C25: an embed_secret call whose cover has sides that are multiples of 8  *)
(* and whose payload of L bits fits the capacity returns, with one Z bit    *)
(* for each of the L bits, after visiting exactly ceil(L / 21) blocks, the  *)
(* first ones in row-major order, and no block after them.                  *)
C25_EmbeddingReachesDone ==
  (EmbedCalled /\ CoverMultipleOf8 /\ PayloadLength(emb.secret) <= CoverCapacity)
    => LET L == PayloadLength(emb.secret)
       IN  /\ emb.res.status = "ok"
           /\ Len(emb.res.encrypted_bits) = L
           /\ Len(emb.res.z_bits) = L
           /\ emb.res.visited = (L + 20) \div 21
           /\ emb.res.visited * 21 <= CoverCapacity

(* an embedding that ends at a block boundary with blocks left over *)
C25_BlocksLeftOver ==
  /\ EmbedOk
  /\ emb.res.visited >= 1
  /\ emb.res.visited * 21 < CoverCapacity
  /\ Len(emb.res.z_bits) = emb.res.visited * 21
  /\ pc = "embedded"

(* the order a key shuffles Q into, 0-based; an absent or empty key leaves *)
(* Q as it is                                                              *)
ShuffleOf(key) == IF Falsy(key) THEN <<0, 1, 2, 3, 4, 5, 6>> ELSE PermOrder(key)

C27_FixedWidthFields ==
  /\ unit.op = "carrier_fields"
       => /\ Len(unit.header_bits) = 72
          /\ BitsToInt(SubSeq(unit.header_bits, 33, 40)) = unit.style_num
          /\ BitsToInt(SubSeq(unit.header_bits, 41, 56)) = unit.img_num
          /\ BitsToInt(SubSeq(unit.header_bits, 57, 72)) = unit.img_size
          /\ SubSeq(unit.all_bits, 73, 72 + Len(unit.z_bits)) = unit.z_bits
  /\ unit.op = "image_fields"
       => LET channels == CASE unit.image.mode = "L" -> 1
                            [] unit.image.mode = "RGB" -> 3
                            [] unit.image.mode = "RGBA" -> 4
          IN  /\ Len(unit.binary) = 34 + 8 * channels * Len(unit.image.px)
              /\ unit.binary[33] = (IF unit.image.mode = "L" THEN 0 ELSE 1)
              /\ unit.binary[34] = (IF unit.image.mode = "RGBA" THEN 1 ELSE 0)

(* C28: binary_to_image builds every pixel from the number of channels the *)
(* header declares (1 if is_color = 0, 3 if is_color = 1 and               *)
(* has_alpha = 0, 4 if both are 1), also when the bits run out before      *)
(* width x height pixels are read.                                         *)
C28_DeclaredDepth ==
  (unit.op = "binary_to_image" /\ Len(unit.binary) >= 34)
    => LET channels == IF unit.binary[33] = 0 THEN 1
                       ELSE IF unit.binary[34] = 0 THEN 3 ELSE 4
       IN  \A p \in 1..Len(unit.pixels) : Len(unit.pixels[p]) = channels

(* C29: the noise image is 64x64 grayscale, its pixel i (row-major,        *)
(* 0..4095) is contentBits[i] * 255 when i < len(contentBits) and 128      *)
(* otherwise, and it is built for content bits of every length, none and   *)
(* more than 4096 included.                                                *)
C29_NoiseImageContent ==
  unit.op = "noise"
    => /\ unit.image.kind = "image"
       /\ unit.image.w = 64
       /\ unit.image.h = 64
       /\ unit.image.mode = "L"
       /\ Len(unit.image.px) = 4096
       /\ \A i \in 0..4095 :
            unit.image.px[i + 1] = << IF i < Len(unit.content_bits)
                                      THEN unit.content_bits[i + 1] * 255
                                      ELSE 128 >>

(* content bits that end inside the image: a white pixel, then the filler *)
C29_PartlyNoise ==
  /\ unit.op = "noise"
  /\ Len(unit.content_bits) = 33
  /\ unit.image.px[33] = <<255>>
  /\ unit.image.px[34] = <<128>>
  /\ unit.image.px[4096] = <<128>>

(* C30: on a cover whose sides are multiples of 8 and a Z-code of at least *)
(* one bit, detect_and_extract returns the secret and the metadata that    *)
(* extract_secret returns when called with the type detect_and_extract     *)
(* reports, also when the image payload is malformed.                      *)
C30_EntryPointsAgree ==
  (Extracted /\ ext.op = "detect_and_extract" /\ CoverMultipleOf8 /\ Len(zcode) >= 1)
    => LET by_type == extract_secret(cover, zcode, ext.res.secret_type, ext.key)
       IN  /\ by_type.status = ext.res.status
           /\ by_type.secret = ext.res.secret
           /\ by_type.info = ext.res.info

====
